---- MODULE Spec2Model ----
(***************************************************************************)
(* The Reason-Act-Observe loop of Agentic-Summariser, in its five          *)
(* variants:                                                               *)
(*   BaseAgent.invoke, BaseAgent.stream, run_agent_loop                    *)
(*                         (archive_refactored/agents/base.py)             *)
(*   run_agent                 (react.py)                                  *)
(*   demo_streaming_with_tools (streaming.py)                              *)
(* The language model and the data set are the environment: each model     *)
(* call draws a turn from a small set of turns, or faults.  Amounts of     *)
(* money are integers of cents.                                            *)
(***************************************************************************)
EXTENDS Integers, Sequences, FiniteSets, TLC

\* Largest max_iterations an agent is constructed with.
MaxIter == 2
\* Largest number of tool calls the model puts into one turn.
MaxInv == 2

\* Largest top_n a call of top_spending_categories is given.
MaxTopN == 3

VARIABLES
    variant,               \* which loop runs
    tools,                 \* the tool list the loop was given
    tool_map,              \* name -> tool
    system_prompt,
    max_iterations,
    question,
    messages,              \* the conversation
    iteration,             \* loop counter
    pc,                    \* "loop" | "streaming" | "tools" | "final" | "exhausted" | "raised"
    response,              \* the turn the blocking model call returned
    chunks,                \* what is left of the chunk sequence being drained
    collected_content,
    collected_tool_calls,
    tool_idx,              \* position of the for loop over the turn's tool calls
    result,                \* <<>> before the return, <<value>> after it
    yielded,               \* tokens the generator stream has yielded
    raised,                \* "" | "model" | "tool": what propagated out of the loop
    script,                \* the turns the model backend has produced
    model_calls,           \* number of calls the model backend has received
    executed,              \* tool implementations run, in order: <<name, args>>
    earlier,               \* what the calls made before this one did, oldest first
    suspended,             \* the state of the calls that run concurrently and are not at a step
    verbose,               \* self.verbose, the verbose parameter
    stdout,                \* the lines the step tracing of agents/base.py has printed
    tool_run,              \* the call of a tool function that is followed line by line
    llm_input,             \* <<>>, or <<the conversation the latest model call was given>>
    generation             \* the call of generate_customer_transactions that is followed

vars == <<variant, tools, tool_map, system_prompt, max_iterations, question,
          messages, iteration, pc, response, chunks, collected_content,
          collected_tool_calls, tool_idx, result, yielded, raised, script,
          model_calls, executed, earlier, suspended, verbose, stdout, tool_run,
          llm_input, generation>>

(***************************************************************************)
(* Messages (langchain_core.messages), one record shape for the three.     *)
(***************************************************************************)
HumanMessage(content) ==
    [type |-> "human", content |-> content, tool_calls |-> <<>>, tool_call_id |-> ""]

AIMessage(content, tool_calls) ==
    [type |-> "ai", content |-> content, tool_calls |-> tool_calls, tool_call_id |-> ""]

\* a tool message that does not say which call it answers
ToolMessage_without_id(content, tool_call_id) ==
    [type |-> "tool", content |-> content, tool_calls |-> <<>>, tool_call_id |-> ""]

ToolMessage(content, tool_call_id) ==
    [type |-> "tool", content |-> content, tool_calls |-> <<>>, tool_call_id |-> tool_call_id]

(***************************************************************************)
(* The data set and the tool get_total_spending.                           *)
(***************************************************************************)
TRANSACTIONS_DF ==
    << [cust_id |-> "CUST0001", dr_cr_indctor |-> "DR", tran_amt_in_ac |-> 6000,
        category_of_txn |-> "Groceries"],
       [cust_id |-> "CUST0001", dr_cr_indctor |-> "DR", tran_amt_in_ac |-> 50000,
        category_of_txn |-> "Rent"],
       [cust_id |-> "CUST0001", dr_cr_indctor |-> "CR", tran_amt_in_ac |-> 250000,
        category_of_txn |-> "Salary"],
       [cust_id |-> "CUST0001", dr_cr_indctor |-> "DR", tran_amt_in_ac |-> 30000,
        category_of_txn |-> "EMI"],
       [cust_id |-> "CUST0001", dr_cr_indctor |-> "DR", tran_amt_in_ac |-> 4000,
        category_of_txn |-> "Groceries"],
       [cust_id |-> "CUST0002", dr_cr_indctor |-> "DR", tran_amt_in_ac |-> 123456,
        category_of_txn |-> "Rent"],
       [cust_id |-> "CUST0002", dr_cr_indctor |-> "DR", tran_amt_in_ac |-> 123456,
        category_of_txn |-> "Groceries"] >>

RECURSIVE SumAmounts(_)
SumAmounts(rows) ==
    IF rows = <<>> THEN 0
    ELSE Head(rows).tran_amt_in_ac + SumAmounts(Tail(rows))

\* df[(df['cust_id'] == customer_id) & (df['dr_cr_indctor'] == 'DR')]
DebitRows(customer_id) ==
    SelectSeq(TRANSACTIONS_DF,
              LAMBDA r : r.cust_id = customer_id /\ r.dr_cr_indctor = "DR")

Pad(n, width) ==
    IF width = 3 /\ n < 10 THEN "00" \o ToString(n)
    ELSE IF (width = 3 /\ n < 100) \/ (width = 2 /\ n < 10) THEN "0" \o ToString(n)
    ELSE ToString(n)

RECURSIVE Grouped(_)
Grouped(n) ==
    IF n < 1000 THEN ToString(n)
    ELSE Grouped(n \div 1000) \o "," \o Pad(n % 1000, 3)

\* f"{total:,.2f}" of an amount of cents
FormatAmount(cents) == Grouped(cents \div 100) \o "." \o Pad(cents % 100, 2)

get_total_spending(customer_id) ==
    "Customer " \o customer_id \o " total spending: $"
        \o FormatAmount(SumAmounts(DebitRows(customer_id)))

\* tool.invoke(tool_args): the arguments are validated against the tool's
\* schema (customer_id is required), then the function runs.
ToolInvoke(tool, tool_args) ==
    IF "customer_id" \in DOMAIN tool_args
    THEN [raised |-> FALSE, value |-> get_total_spending(tool_args.customer_id)]
    ELSE [raised |-> TRUE, value |-> ""]

Tool(name) == [name |-> name]

\* two tools of the list carry one name
HasDuplicateNames(ts) == \E i, j \in DOMAIN ts : i # j /\ ts[i].name = ts[j].name

\* {t.name: t for t in tools}
ToolMap(ts) ==
    [n \in {ts[i].name : i \in DOMAIN ts} |->
        ts[CHOOSE i \in DOMAIN ts :
              ts[i].name = n /\ \A j \in DOMAIN ts : ts[j].name = n => j <= i]]

(***************************************************************************)
(* The model backend.  A turn is the sequence of text fragments and the    *)
(* list of tool calls the backend produces for one call; the blocking call *)
(* returns them aggregated, the streaming call delivers them as chunks.    *)
(***************************************************************************)
RECURSIVE Join(_)
Join(fragments) ==
    IF fragments = <<>> THEN "" ELSE Head(fragments) \o Join(Tail(fragments))

\* Names the model asks for: a tool of the data set, and a name that no
\* tool list holds.
RequestedNames == {"get_total_spending", "get_weather"}

\* Arguments the model sends: for a tool bound to it, arguments that follow
\* its schema or miss the required customer_id.
ArgsFor(name, bound) ==
    IF name \in bound
    THEN {[customer_id |-> "CUST0001"], [customer |-> "CUST0001"]}
    ELSE {[customer_id |-> "CUST0001"]}

Requests(bound) ==
    UNION {{[name |-> n, args |-> a] : a \in ArgsFor(n, bound)} : n \in RequestedNames}

\* Tool calls carry ids that are unique within the turn.
WithIds(reqs) ==
    [i \in DOMAIN reqs |->
        [name |-> reqs[i].name, args |-> reqs[i].args, id |-> "call_" \o ToString(i)]]

ToolCallLists(bound) ==
    UNION {{WithIds(r) : r \in [1..n -> Requests(bound)]} : n \in 1..MaxInv}

Turn(fragments, tool_calls) ==
    [fault |-> FALSE, fragments |-> fragments, tool_calls |-> tool_calls]

ModelFault == [fault |-> TRUE, fragments |-> <<>>, tool_calls |-> <<>>]

FinalTurns == {Turn(f, <<>>) : f \in {<<>>, <<"4", "2">>}}

\* A final turn that repeats the text of the tool message the conversation
\* ends with, as a model told to repeat the exact numbers does.
EchoTurns ==
    IF messages # <<>> /\ messages[Len(messages)].type = "tool"
    THEN {Turn(<<messages[Len(messages)].content>>, <<>>)}
    ELSE {}

\* A turn that asks for tools: a single call with or without text, or
\* several calls after a text of two fragments.
ToolTurns(bound) ==
    {Turn(f, c) : f \in {<<>>, <<"Checking.">>},
                  c \in {l \in ToolCallLists(bound) : Len(l) = 1}}
    \cup {Turn(<<"Let me", " check.">>, c) : c \in {l \in ToolCallLists(bound) : Len(l) > 1}}

\* The turns drawn for the loops whose iteration cap is written in the code,
\* for the loops that take the turn chunk by chunk, and for calls that run
\* concurrently.
FixedCapTurns ==
    FinalTurns \cup {ModelFault}
    \cup {Turn(<<>>, WithIds(<<[name |-> "get_weather", args |-> [customer_id |-> "CUST0001"]]>>)),
          Turn(<<"Let me", " check.">>,
               WithIds(<<[name |-> "get_total_spending", args |-> [customer_id |-> "CUST0001"]],
                         [name |-> "get_weather", args |-> [customer_id |-> "CUST0001"]]>>)),
          Turn(<<>>, WithIds(<<[name |-> "get_total_spending", args |-> [customer |-> "CUST0001"]]>>))}

ModelTurns(bound) ==
    IF variant \in {"run_agent", "demo_streaming_with_tools", "stream"} \/ suspended # <<>>
    THEN FixedCapTurns
    ELSE FinalTurns \cup EchoTurns \cup ToolTurns(bound) \cup {ModelFault}

\* The k-th turn of the backend: the one it produced before, or a new one.
TurnsAt(k, bound) == IF k <= Len(script) THEN {script[k]} ELSE ModelTurns(bound)

Produced(k, turn) == IF k <= Len(script) THEN script ELSE Append(script, turn)

\* llm_with_tools.invoke(messages): the aggregated turn
BlockingResponse(turn) ==
    [content |-> Join(turn.fragments), tool_calls |-> turn.tool_calls]

NoResponse == [content |-> "", tool_calls |-> <<>>]

(***************************************************************************)
(* llm_with_tools.stream(messages): the turn as a sequence of chunks, each *)
(* with a text fragment, fully formed tool calls, or both.                 *)
(***************************************************************************)
Chunk(content, tool_calls) == [content |-> content, tool_calls |-> tool_calls]

TextChunks(fragments) == [i \in DOMAIN fragments |-> Chunk(fragments[i], <<>>)]

CallChunks(tool_calls) == [i \in DOMAIN tool_calls |-> Chunk("", <<tool_calls[i]>>)]

Layouts == {"whole", "text_first", "calls_first", "interleaved"}

Chunked(turn, layout) ==
    CASE layout = "whole" -> <<Chunk(Join(turn.fragments), turn.tool_calls)>>
      [] layout = "text_first" -> TextChunks(turn.fragments) \o CallChunks(turn.tool_calls)
      [] layout = "calls_first" -> CallChunks(turn.tool_calls) \o TextChunks(turn.fragments)
      [] layout = "interleaved" ->
            IF turn.fragments = <<>> THEN CallChunks(turn.tool_calls)
            ELSE <<Chunk(Head(turn.fragments), <<>>)>> \o CallChunks(turn.tool_calls)
                     \o TextChunks(Tail(turn.fragments))

(***************************************************************************)
(* Frames                                                                  *)
(***************************************************************************)
harness == <<earlier, suspended, tool_run, generation>>

config == <<variant, tools, system_prompt, question, verbose>>

locals == <<tool_map, max_iterations>>

streaming == <<chunks, collected_content, collected_tool_calls, yielded>>

\* the tool implementations a tool call runs
Ran(tool_call) ==
    IF tool_call.name \in DOMAIN tool_map
    THEN <<[name |-> tool_call.name, args |-> tool_call.args]>>
    ELSE <<>>

(***************************************************************************)
(* BaseAgent.invoke (agents/base.py)                                       *)
(***************************************************************************)
\* a _log that prints whatever the flag says
_log_always(out, message) == Append(out, message)

\* def _log(self, message): if self.verbose: print(message)
\* and, in run_agent_loop, if verbose: print(...)
_log(out, message) == IF verbose THEN _log_always(out, message) ELSE out

RECURSIVE LogAll(_, _)
LogAll(out, lines) ==
    IF lines = <<>> THEN out ELSE LogAll(_log(out, Head(lines)), Tail(lines))

\* '-'*60
Dashes == "------------------------------------------------------------"

\* str of the arguments dict of a tool call
ReprArgs(args) ==
    IF "customer_id" \in DOMAIN args
    THEN "{'customer_id': '" \o args.customer_id \o "'}"
    ELSE "{'customer': '" \o args.customer \o "'}"

\* lines 58-60
invoke_begin_lines == <<"\n" \o Dashes, "USER QUESTION: " \o question, Dashes>>

\* lines 64, 68, 76, 77: the line of the iteration is printed before the call
invoke_turn_lines(k, turn) ==
    <<"\n--- Iteration " \o ToString(k) \o " ---">>
    \o (IF turn.fault THEN <<>>
        ELSE IF turn.tool_calls # <<>> THEN <<"LLM Response: Tool Call">>
        ELSE <<"LLM Response: Final Answer", "\nFINAL ANSWER: " \o Join(turn.fragments)>>)

\* lines 88, 89, 94 of _execute_tool
_execute_tool_lines(tool_call, r) ==
    <<"  TOOL: " \o tool_call.name, "  ARGS: " \o ReprArgs(tool_call.args)>>
    \o (IF r.raised THEN <<>> ELSE <<"  RESULT: " \o r.value>>)

\* FINANCIAL_ANALYST_PROMPT of config/prompts.py, the system_prompt
\* FinancialAgent passes on
FINANCIAL_ANALYST_PROMPT ==
    "You are a financial analyst. Use the available tools to answer questions.\n\n"
    \o "CRITICAL RULES:\n"
    \o "1. Call the appropriate tool to get data\n"
    \o "2. After receiving tool results, REPEAT THE EXACT NUMBERS in your answer\n"
    \o "3. Your final answer MUST contain the specific dollar amounts and counts from the tool\n\n"
    \o "Example of GOOD answer: \"CUST0001 spent $122,537.79 on Rent across 6 transactions.\"\n"
    \o "Example of BAD answer: \"The data shows spending on rent.\" (missing numbers!)\n"

\* return f"{prompt_template}\n\nQuestion: {question}"
get_prompt_with_question(prompt_template, q) == prompt_template \o "\n\nQuestion: " \o q

\* the question right after the prompt, with nothing between
initial_prompt_without_separator(prompt, q) == prompt \o q

\* f"{self.system_prompt}\n\nQuestion: {question}"
initial_prompt(prompt, q) == prompt \o "\n\nQuestion: " \o q

\* range(1, self.max_iterations + 2): one value too many
range_has_next_off_by_one == iteration + 1 < max_iterations + 2

\* MAX_ITERATIONS of config/settings.py, the max_iterations FinancialAgent
\* passes on; also the default of BaseAgent.__init__ and of run_agent_loop
MAX_ITERATIONS == 10

\* for iteration in range(1, self.max_iterations + 1): is there a next value
range_has_next == iteration + 1 < max_iterations + 1

\* a loop that takes any turn with text for the answer
wants_tools_unless_text(turn) == turn.tool_calls # <<>> /\ turn.content = ""

\* if response.tool_calls:
wants_tools(turn) == turn.tool_calls # <<>>

\* the text without the quotes, as react.py writes it
unknown_tool_error_unquoted(tool_name) == "Error: Unknown tool " \o tool_name

unknown_tool_error(tool_name) == "Error: Unknown tool '" \o tool_name \o "'"

_execute_tool(tool_call) ==
    IF tool_call.name \in DOMAIN tool_map
    THEN ToolInvoke(tool_map[tool_call.name], tool_call.args)
    ELSE [raised |-> FALSE, value |-> unknown_tool_error(tool_call.name)]

\* the text run_agent_loop returns
invoke_sentinel_short == "Max iterations reached"

invoke_sentinel == "Max iterations reached without final answer"

\* return response.content
invoke_answer(turn) == turn.content

\* the tool's name in the place of the call's id
invoke_tool_message_by_name(value, tool_call) == ToolMessage(value, tool_call.name)

\* the tool's string wrapped in a label
invoke_tool_message_labelled(value, tool_call) ==
    ToolMessage("Result: " \o value, tool_call.id)

\* the tool message of line 74
invoke_tool_message(value, tool_call) == ToolMessage(value, tool_call.id)

\* the fault swallowed and the loop going on with the next iteration
invoke_model_fault_retried ==
    /\ pc' = "loop" /\ raised' = raised
    /\ UNCHANGED <<messages, response, tool_idx, result>>

\* a fault of llm_with_tools.invoke is not caught
invoke_model_fault ==
    /\ pc' = "raised" /\ raised' = "model"
    /\ UNCHANGED <<messages, response, tool_idx, result>>

\* a fault of the tool is not caught by _execute_tool or by invoke
invoke_tool_fault ==
    /\ pc' = "raised" /\ raised' = "tool"
    /\ UNCHANGED <<messages, tool_idx>>

\* a conversation kept on the agent and taken up again by the next call
invoke_begin_resuming ==
    /\ variant = "invoke" /\ pc = "idle"
    /\ messages' = Append(messages, HumanMessage(initial_prompt(system_prompt, question)))
    /\ stdout' = LogAll(stdout, invoke_begin_lines)
    /\ iteration' = 0
    /\ pc' = "loop"
    /\ UNCHANGED <<harness, llm_input, config, locals, streaming, response, tool_idx, result, raised,
                   script, model_calls, executed>>

\* the prompt and the question as two messages
invoke_begin_with_two_messages ==
    /\ variant = "invoke" /\ pc = "idle"
    /\ messages' = <<HumanMessage(system_prompt), HumanMessage("Question: " \o question)>>
    /\ stdout' = LogAll(stdout, invoke_begin_lines)
    /\ iteration' = 0
    /\ pc' = "loop"
    /\ UNCHANGED <<harness, llm_input, config, locals, streaming, response, tool_idx, result,
                   raised, script, model_calls, executed>>

\* an agent that keeps the prompt it built in self.system_prompt
invoke_begin_storing_prompt ==
    /\ variant = "invoke" /\ pc = "idle"
    /\ system_prompt' = initial_prompt(system_prompt, question)
    /\ messages' = <<HumanMessage(system_prompt')>>
    /\ stdout' = LogAll(stdout, invoke_begin_lines)
    /\ iteration' = 0
    /\ pc' = "loop"
    /\ UNCHANGED <<harness, llm_input, variant, tools, question, verbose, locals, streaming,
                   response, tool_idx, result, raised, script, model_calls, executed>>

invoke_begin ==
    /\ variant = "invoke" /\ pc = "idle"
    /\ messages' = <<HumanMessage(initial_prompt(system_prompt, question))>>
    /\ stdout' = LogAll(stdout, invoke_begin_lines)
    /\ iteration' = 0
    /\ pc' = "loop"
    /\ UNCHANGED <<harness, llm_input, config, locals, streaming, response, tool_idx, result, raised,
                   script, model_calls, executed>>

invoke_call_llm ==
    /\ variant = "invoke" /\ pc = "loop" /\ range_has_next
    /\ iteration' = iteration + 1
    /\ llm_input' = <<messages>>
    /\ model_calls' = model_calls + 1
    /\ \E turn \in TurnsAt(model_calls + 1, DOMAIN tool_map) :
         /\ script' = Produced(model_calls + 1, turn)
         /\ stdout' = LogAll(stdout, invoke_turn_lines(iteration', turn))
         /\ IF turn.fault
            THEN invoke_model_fault
            ELSE /\ response' = BlockingResponse(turn)
                 /\ raised' = raised
                 /\ IF wants_tools(response')
                    THEN /\ messages' = Append(messages, AIMessage(response'.content,
                                                                    response'.tool_calls))
                         /\ tool_idx' = 1
                         /\ pc' = "tools"
                         /\ result' = result
                    ELSE /\ result' = <<invoke_answer(response')>>
                         /\ pc' = "final"
                         /\ UNCHANGED <<messages, tool_idx>>
    /\ UNCHANGED <<harness, config, locals, streaming, executed>>

\* a dispatcher that keeps one tool message per turn, the latest
invoke_execute_tool_keeping_latest ==
    /\ variant = "invoke" /\ pc = "tools"
    /\ LET tool_call == response.tool_calls[tool_idx]
           r == _execute_tool(tool_call)
           kept == IF tool_idx > 1 THEN SubSeq(messages, 1, Len(messages) - 1) ELSE messages
       IN /\ executed' = executed \o Ran(tool_call)
          /\ stdout' = LogAll(stdout, _execute_tool_lines(tool_call, r))
          /\ IF r.raised
             THEN invoke_tool_fault
             ELSE /\ messages' = Append(kept, invoke_tool_message(r.value, tool_call))
                  /\ tool_idx' = tool_idx + 1
                  /\ pc' = IF tool_idx < Len(response.tool_calls) THEN "tools" ELSE "loop"
                  /\ raised' = raised
    /\ UNCHANGED <<harness, llm_input, config, locals, streaming, iteration, response, result,
                   script, model_calls>>

invoke_execute_tool ==
    /\ variant = "invoke" /\ pc = "tools"
    /\ LET tool_call == response.tool_calls[tool_idx]
           r == _execute_tool(tool_call)
       IN /\ executed' = executed \o Ran(tool_call)
          /\ stdout' = LogAll(stdout, _execute_tool_lines(tool_call, r))
          /\ IF r.raised
             THEN invoke_tool_fault
             ELSE /\ messages' = Append(messages, invoke_tool_message(r.value, tool_call))
                  /\ tool_idx' = tool_idx + 1
                  /\ pc' = IF tool_idx < Len(response.tool_calls) THEN "tools" ELSE "loop"
                  /\ raised' = raised
    /\ UNCHANGED <<harness, llm_input, config, locals, streaming, iteration, response, result, script,
                   model_calls>>

\* a loop that gives up on the last iteration before it dispatches the turn
invoke_max_iterations_before_dispatch ==
    /\ variant = "invoke"
    /\ \/ pc = "loop" /\ ~range_has_next
       \/ pc = "tools" /\ tool_idx = 1 /\ iteration = max_iterations
    /\ result' = <<invoke_sentinel>>
    /\ pc' = "exhausted"
    /\ UNCHANGED <<harness, llm_input, stdout, config, locals, streaming, messages, iteration,
                   response, tool_idx, raised, script, model_calls, executed>>

invoke_max_iterations ==
    /\ variant = "invoke" /\ pc = "loop" /\ ~range_has_next
    /\ result' = <<invoke_sentinel>>
    /\ pc' = "exhausted"
    /\ UNCHANGED <<harness, llm_input, stdout, config, locals, streaming, messages, iteration, response, tool_idx,
                   raised, script, model_calls, executed>>

(***************************************************************************)
(* BaseAgent.stream (agents/base.py)                                       *)
(***************************************************************************)
\* collected_content = chunk.content: the latest fragment in the place of the sum
collect_content_latest(collected, chunk) ==
    IF chunk.content # "" THEN chunk.content ELSE collected

\* if chunk.content: collected_content += chunk.content
collect_content(collected, chunk) ==
    IF chunk.content # "" THEN collected \o chunk.content ELSE collected

\* if chunk.content: yield chunk.content
yield_content(out, chunk) ==
    IF chunk.content # "" THEN Append(out, chunk.content) ELSE out

\* if chunk.tool_calls: collected_tool_calls.extend(chunk.tool_calls)
collect_tool_calls(collected, chunk) ==
    IF chunk.tool_calls # <<>> THEN collected \o chunk.tool_calls ELSE collected

stream_begin ==
    /\ variant = "stream" /\ pc = "idle"
    /\ messages' = <<HumanMessage(initial_prompt(system_prompt, question))>>
    /\ iteration' = 0
    /\ pc' = "loop"
    /\ UNCHANGED <<harness, llm_input, stdout, config, locals, streaming, response, tool_idx, result, raised,
                   script, model_calls, executed>>

stream_call_llm ==
    /\ variant = "stream" /\ pc = "loop" /\ range_has_next
    /\ iteration' = iteration + 1
    /\ collected_content' = ""
    /\ collected_tool_calls' = <<>>
    /\ llm_input' = <<messages>>
    /\ model_calls' = model_calls + 1
    /\ \E turn \in TurnsAt(model_calls + 1, DOMAIN tool_map), layout \in Layouts :
         /\ script' = Produced(model_calls + 1, turn)
         /\ IF turn.fault
            THEN /\ pc' = "raised" /\ raised' = "model"
                 /\ chunks' = <<>>
            ELSE /\ chunks' = Chunked(turn, layout)
                 /\ pc' = "streaming"
                 /\ raised' = raised
    /\ UNCHANGED <<harness, stdout, config, locals, messages, response, tool_idx, result, yielded, executed>>

stream_chunk ==
    /\ variant = "stream" /\ pc = "streaming" /\ chunks # <<>>
    /\ yielded' = yield_content(yielded, Head(chunks))
    /\ collected_content' = collect_content(collected_content, Head(chunks))
    /\ collected_tool_calls' = collect_tool_calls(collected_tool_calls, Head(chunks))
    /\ chunks' = Tail(chunks)
    /\ UNCHANGED <<harness, llm_input, stdout, config, locals, messages, iteration, pc, response, tool_idx, result,
                   raised, script, model_calls, executed>>

\* a loop that takes the turn for decided as soon as it has text
stream_end_of_turn_on_first_text ==
    /\ variant = "stream" /\ pc = "streaming"
    /\ chunks = <<>> \/ collected_content # ""
    /\ IF collected_tool_calls # <<>>
       THEN /\ messages' = Append(messages, AIMessage(collected_content, collected_tool_calls))
            /\ tool_idx' = 1
            /\ pc' = "tools"
       ELSE /\ pc' = "final"
            /\ UNCHANGED <<messages, tool_idx>>
    /\ UNCHANGED <<harness, llm_input, stdout, config, locals, streaming, iteration, response,
                   result, raised, script, model_calls, executed>>

\* lines 117-126: reached when the for loop over the chunks is through
stream_end_of_turn ==
    /\ variant = "stream" /\ pc = "streaming" /\ chunks = <<>>
    /\ IF collected_tool_calls # <<>>
       THEN /\ messages' = Append(messages, AIMessage(collected_content, collected_tool_calls))
            /\ tool_idx' = 1
            /\ pc' = "tools"
       ELSE /\ pc' = "final"
            /\ UNCHANGED <<messages, tool_idx>>
    /\ UNCHANGED <<harness, llm_input, stdout, config, locals, streaming, iteration, response, result, raised, script,
                   model_calls, executed>>

stream_execute_tool ==
    /\ variant = "stream" /\ pc = "tools"
    /\ LET tool_call == collected_tool_calls[tool_idx]
           r == _execute_tool(tool_call)
       IN /\ executed' = executed \o Ran(tool_call)
          /\ stdout' = LogAll(stdout, _execute_tool_lines(tool_call, r))
          /\ IF r.raised
             THEN /\ pc' = "raised" /\ raised' = "tool"
                  /\ UNCHANGED <<messages, tool_idx>>
             ELSE /\ messages' = Append(messages, ToolMessage(r.value, tool_call.id))
                  /\ tool_idx' = tool_idx + 1
                  /\ pc' = IF tool_idx < Len(collected_tool_calls) THEN "tools" ELSE "loop"
                  /\ raised' = raised
    /\ UNCHANGED <<harness, llm_input, config, locals, streaming, iteration, response, result, script,
                   model_calls>>

\* the generator ends when the range is used up: nothing is yielded or returned
stream_max_iterations ==
    /\ variant = "stream" /\ pc = "loop" /\ ~range_has_next
    /\ pc' = "exhausted"
    /\ UNCHANGED <<harness, llm_input, stdout, config, locals, streaming, messages, iteration, response, tool_idx,
                   result, raised, script, model_calls, executed>>

(***************************************************************************)
(* run_agent_loop (agents/base.py)                                         *)
(***************************************************************************)
\* The list the caller passed as messages is the list the loop appends to
\* (messages.append, lines 149 and 159): the caller's name and the loop's
\* name are bound to one object.  The other variants build their own list
\* and hand none out.
caller_messages == IF variant = "run_agent_loop" THEN messages ELSE <<>>

\* the messages argument as the caller built it
supplied_messages == IF variant = "run_agent_loop" THEN <<HumanMessage(question)>> ELSE <<>>

run_agent_loop_unknown_tool(tool_name) == "Unknown tool: " \o tool_name

run_agent_loop_sentinel == "Max iterations reached"

run_agent_loop_tool(tool_call) ==
    IF tool_call.name \in DOMAIN tool_map
    THEN ToolInvoke(tool_map[tool_call.name], tool_call.args)
    ELSE [raised |-> FALSE, value |-> run_agent_loop_unknown_tool(tool_call.name)]

\* lines 143, 147, 161
run_agent_loop_turn_lines(k, turn) ==
    <<"\n--- Iteration " \o ToString(k) \o " ---">>
    \o (IF turn.fault THEN <<>>
        ELSE IF turn.tool_calls # <<>> THEN <<"LLM Response: Tool Call">>
        ELSE <<"\nFINAL: " \o Join(turn.fragments)>>)

\* lines 154, 158
run_agent_loop_tool_lines(tool_call, r) ==
    <<"  TOOL: " \o tool_call.name \o "(" \o ReprArgs(tool_call.args) \o ")">>
    \o (IF r.raised THEN <<>> ELSE <<"  RESULT: " \o r.value>>)

run_agent_loop_begin ==
    /\ variant = "run_agent_loop" /\ pc = "idle"
    /\ tool_map' = ToolMap(tools)
    /\ iteration' = 0
    /\ pc' = "loop"
    /\ UNCHANGED <<harness, llm_input, stdout, config, max_iterations, streaming, messages, response, tool_idx,
                   result, raised, script, model_calls, executed>>

run_agent_loop_call_llm ==
    /\ variant = "run_agent_loop" /\ pc = "loop" /\ range_has_next
    /\ iteration' = iteration + 1
    /\ llm_input' = <<messages>>
    /\ model_calls' = model_calls + 1
    /\ \E turn \in TurnsAt(model_calls + 1, DOMAIN tool_map) :
         /\ script' = Produced(model_calls + 1, turn)
         /\ stdout' = LogAll(stdout, run_agent_loop_turn_lines(iteration', turn))
         /\ IF turn.fault
            THEN /\ pc' = "raised" /\ raised' = "model"
                 /\ UNCHANGED <<messages, response, tool_idx, result>>
            ELSE /\ response' = BlockingResponse(turn)
                 /\ raised' = raised
                 /\ IF response'.tool_calls # <<>>
                    THEN /\ messages' = Append(messages, AIMessage(response'.content,
                                                                    response'.tool_calls))
                         /\ tool_idx' = 1
                         /\ pc' = "tools"
                         /\ result' = result
                    ELSE /\ result' = <<response'.content>>
                         /\ pc' = "final"
                         /\ UNCHANGED <<messages, tool_idx>>
    /\ UNCHANGED <<harness, config, locals, streaming, executed>>

run_agent_loop_execute_tool ==
    /\ variant = "run_agent_loop" /\ pc = "tools"
    /\ LET tool_call == response.tool_calls[tool_idx]
           r == run_agent_loop_tool(tool_call)
       IN /\ executed' = executed \o Ran(tool_call)
          /\ stdout' = LogAll(stdout, run_agent_loop_tool_lines(tool_call, r))
          /\ IF r.raised
             THEN /\ pc' = "raised" /\ raised' = "tool"
                  /\ UNCHANGED <<messages, tool_idx>>
             ELSE /\ messages' = Append(messages, ToolMessage(r.value, tool_call.id))
                  /\ tool_idx' = tool_idx + 1
                  /\ pc' = IF tool_idx < Len(response.tool_calls) THEN "tools" ELSE "loop"
                  /\ raised' = raised
    /\ UNCHANGED <<harness, llm_input, config, locals, streaming, iteration, response, result, script,
                   model_calls>>

run_agent_loop_max_iterations ==
    /\ variant = "run_agent_loop" /\ pc = "loop" /\ ~range_has_next
    /\ result' = <<run_agent_loop_sentinel>>
    /\ pc' = "exhausted"
    /\ UNCHANGED <<harness, llm_input, stdout, config, locals, streaming, messages, iteration, response, tool_idx,
                   raised, script, model_calls, executed>>

(***************************************************************************)
(* run_agent (react.py)                                                    *)
(***************************************************************************)
react_TOOLS ==
    << Tool("get_total_spending"), Tool("get_total_credit"),
       Tool("get_spending_by_category"), Tool("list_customers"),
       Tool("list_categories"), Tool("top_spending_categories") >>

react_max_iterations == 10

react_prompt(user_question) ==
    "You are a financial analyst. Use the available tools to answer questions.\n\n"
    \o "CRITICAL RULES:\n"
    \o "1. Call the appropriate tool to get data\n"
    \o "2. After receiving tool results, REPEAT THE EXACT NUMBERS in your answer\n"
    \o "3. Your final answer MUST contain the specific dollar amounts and counts from the tool\n\n"
    \o "Question: " \o user_question

run_agent_unknown_tool(tool_name) == "Error: Unknown tool " \o tool_name

run_agent_sentinel == "Max iterations reached without final answer"

\* return response.content
run_agent_answer(turn) == turn.content

run_agent_tool(tool_call) ==
    IF tool_call.name \in DOMAIN tool_map
    THEN ToolInvoke(tool_map[tool_call.name], tool_call.args)
    ELSE [raised |-> FALSE, value |-> run_agent_unknown_tool(tool_call.name)]

run_agent_begin ==
    /\ variant = "run_agent" /\ pc = "idle"
    /\ tool_map' = ToolMap(react_TOOLS)
    /\ messages' = <<HumanMessage(react_prompt(question))>>
    /\ iteration' = 0
    /\ max_iterations' = react_max_iterations
    /\ pc' = "loop"
    /\ UNCHANGED <<harness, llm_input, stdout, config, streaming, response, tool_idx, result, raised, script,
                   model_calls, executed>>

\* while iteration < max_iterations: iteration += 1
run_agent_call_llm ==
    /\ variant = "run_agent" /\ pc = "loop" /\ iteration < max_iterations
    /\ iteration' = iteration + 1
    /\ llm_input' = <<messages>>
    /\ model_calls' = model_calls + 1
    /\ \E turn \in TurnsAt(model_calls + 1, DOMAIN tool_map) :
         /\ script' = Produced(model_calls + 1, turn)
         /\ IF turn.fault
            THEN /\ pc' = "raised" /\ raised' = "model"
                 /\ UNCHANGED <<messages, response, tool_idx, result>>
            ELSE /\ response' = BlockingResponse(turn)
                 /\ raised' = raised
                 /\ IF wants_tools(response')
                    THEN /\ messages' = Append(messages, AIMessage(response'.content,
                                                                    response'.tool_calls))
                         /\ tool_idx' = 1
                         /\ pc' = "tools"
                         /\ result' = result
                    ELSE /\ result' = <<run_agent_answer(response')>>
                         /\ pc' = "final"
                         /\ UNCHANGED <<messages, tool_idx>>
    /\ UNCHANGED <<harness, stdout, config, locals, streaming, executed>>

run_agent_execute_tool ==
    /\ variant = "run_agent" /\ pc = "tools"
    /\ LET tool_call == response.tool_calls[tool_idx]
           r == run_agent_tool(tool_call)
       IN /\ executed' = executed \o Ran(tool_call)
          /\ IF r.raised
             THEN /\ pc' = "raised" /\ raised' = "tool"
                  /\ UNCHANGED <<messages, tool_idx>>
             ELSE /\ messages' = Append(messages, ToolMessage(r.value, tool_call.id))
                  /\ tool_idx' = tool_idx + 1
                  /\ pc' = IF tool_idx < Len(response.tool_calls) THEN "tools" ELSE "loop"
                  /\ raised' = raised
    /\ UNCHANGED <<harness, llm_input, stdout, config, locals, streaming, iteration, response, result, script,
                   model_calls>>

run_agent_max_iterations ==
    /\ variant = "run_agent" /\ pc = "loop" /\ ~(iteration < max_iterations)
    /\ result' = <<run_agent_sentinel>>
    /\ pc' = "exhausted"
    /\ UNCHANGED <<harness, llm_input, stdout, config, locals, streaming, messages, iteration, response, tool_idx,
                   raised, script, model_calls, executed>>

(***************************************************************************)
(* demo_streaming_with_tools (streaming.py)                                *)
(***************************************************************************)
streaming_TOOLS ==
    << Tool("get_total_spending"), Tool("get_spending_by_category"),
       Tool("top_spending_categories") >>

demo_max_iterations == 5

demo_question == "How much did CUST0001 spend on Groceries?"

demo_prompt(q) ==
    "You are a financial analyst.\n"
    \o "Use tools to get data. Include exact numbers in your answer.\n"
    \o "Question: " \o q

demo_unknown_tool(tool_name) == "Unknown tool: " \o tool_name

demo_sentinel == "Max iterations reached"

demo_tool(tool_call) ==
    IF tool_call.name \in DOMAIN tool_map
    THEN ToolInvoke(tool_map[tool_call.name], tool_call.args)
    ELSE [raised |-> FALSE, value |-> demo_unknown_tool(tool_call.name)]

demo_begin ==
    /\ variant = "demo_streaming_with_tools" /\ pc = "idle"
    /\ tool_map' = ToolMap(streaming_TOOLS)
    /\ messages' = <<HumanMessage(demo_prompt(question))>>
    /\ iteration' = 0
    /\ max_iterations' = demo_max_iterations
    /\ pc' = "loop"
    /\ UNCHANGED <<harness, llm_input, stdout, config, streaming, response, tool_idx, result, raised, script,
                   model_calls, executed>>

demo_call_llm ==
    /\ variant = "demo_streaming_with_tools" /\ pc = "loop" /\ iteration < max_iterations
    /\ iteration' = iteration + 1
    /\ collected_content' = ""
    /\ collected_tool_calls' = <<>>
    /\ llm_input' = <<messages>>
    /\ model_calls' = model_calls + 1
    /\ \E turn \in TurnsAt(model_calls + 1, DOMAIN tool_map), layout \in Layouts :
         /\ script' = Produced(model_calls + 1, turn)
         /\ IF turn.fault
            THEN /\ pc' = "raised" /\ raised' = "model"
                 /\ chunks' = <<>>
            ELSE /\ chunks' = Chunked(turn, layout)
                 /\ pc' = "streaming"
                 /\ raised' = raised
    /\ UNCHANGED <<harness, stdout, config, locals, messages, response, tool_idx, result, yielded, executed>>

\* the text is printed as it arrives; yielded holds what was printed
demo_chunk ==
    /\ variant = "demo_streaming_with_tools" /\ pc = "streaming" /\ chunks # <<>>
    /\ yielded' = yield_content(yielded, Head(chunks))
    /\ collected_content' = collect_content(collected_content, Head(chunks))
    /\ collected_tool_calls' = collect_tool_calls(collected_tool_calls, Head(chunks))
    /\ chunks' = Tail(chunks)
    /\ UNCHANGED <<harness, llm_input, stdout, config, locals, messages, iteration, pc, response, tool_idx, result,
                   raised, script, model_calls, executed>>

demo_end_of_turn ==
    /\ variant = "demo_streaming_with_tools" /\ pc = "streaming" /\ chunks = <<>>
    /\ IF collected_tool_calls # <<>>
       THEN /\ messages' = Append(messages, AIMessage(collected_content, collected_tool_calls))
            /\ tool_idx' = 1
            /\ pc' = "tools"
            /\ result' = result
       ELSE /\ result' = <<collected_content>>
            /\ pc' = "final"
            /\ UNCHANGED <<messages, tool_idx>>
    /\ UNCHANGED <<harness, llm_input, stdout, config, locals, streaming, iteration, response, raised, script,
                   model_calls, executed>>

demo_execute_tool ==
    /\ variant = "demo_streaming_with_tools" /\ pc = "tools"
    /\ LET tool_call == collected_tool_calls[tool_idx]
           r == demo_tool(tool_call)
       IN /\ executed' = executed \o Ran(tool_call)
          /\ IF r.raised
             THEN /\ pc' = "raised" /\ raised' = "tool"
                  /\ UNCHANGED <<messages, tool_idx>>
             ELSE /\ messages' = Append(messages, ToolMessage(r.value, tool_call.id))
                  /\ tool_idx' = tool_idx + 1
                  /\ pc' = IF tool_idx < Len(collected_tool_calls) THEN "tools" ELSE "loop"
                  /\ raised' = raised
    /\ UNCHANGED <<harness, llm_input, stdout, config, locals, streaming, iteration, response, result, script,
                   model_calls>>

demo_max_iterations_reached ==
    /\ variant = "demo_streaming_with_tools" /\ pc = "loop" /\ ~(iteration < max_iterations)
    /\ result' = <<demo_sentinel>>
    /\ pc' = "exhausted"
    /\ UNCHANGED <<harness, llm_input, stdout, config, locals, streaming, messages, iteration, response, tool_idx,
                   raised, script, model_calls, executed>>

\* no tool function is followed line by line
NoToolRun ==
    [pc |-> "none", df |-> <<>>, customer_id |-> "", top_n |-> 0, top_cats |-> <<>>,
     i |-> 0, result |-> ""]

\* a datetime at midnight, as the generator of scripts/generate_sample_data.py
\* handles it
Date(year, month, day) == [year |-> year, month |-> month, day |-> day]

NoDate == Date(0, 0, 0)

NoTxn == [dr_cr_indctor |-> "", txn_date |-> NoDate, tran_date |-> "", category_of_txn |-> ""]

\* generate_customer_transactions is not running
NoGeneration ==
    [pc |-> "none", start_date |-> NoDate, current_date |-> NoDate, num_months |-> 0,
     month_idx |-> 0, month_start |-> NoDate, month_end |-> NoDate, months |-> <<>>,
     txn |-> NoTxn]

(***************************************************************************)
(* Construction and the specification                                      *)
(***************************************************************************)
NoTools == [n \in {} |-> n]

\* BaseAgent(tools=..., max_iterations=...): invoke or stream is about to be called
InitBaseAgent ==
    /\ variant \in {"invoke", "stream"}
    /\ tools \in IF variant = "invoke"
                 THEN {<<>>, <<Tool("get_total_spending")>>,
                       <<Tool("get_total_spending"), Tool("get_total_spending")>>}
                 ELSE {<<Tool("get_total_spending")>>}
    /\ tool_map = ToolMap(tools)
    /\ system_prompt \in IF tools = <<>> THEN {"", FINANCIAL_ANALYST_PROMPT}
                                          ELSE {FINANCIAL_ANALYST_PROMPT}
    /\ max_iterations \in 0..MaxIter
    /\ HasDuplicateNames(tools) => max_iterations = 1
    /\ question = "q"
    /\ messages = <<>>

\* run_agent_loop(llm_with_tools, tools, messages, max_iterations) is about to be called
InitRunAgentLoop ==
    /\ variant = "run_agent_loop"
    /\ tools = <<Tool("get_total_spending")>>
    /\ tool_map = NoTools
    /\ system_prompt = ""
    /\ max_iterations \in 0..MaxIter
    /\ question = "q"
    /\ messages = <<HumanMessage(question)>>

\* run_agent(llm_with_tools, user_question) is about to be called
InitRunAgent ==
    /\ variant = "run_agent"
    /\ tools = react_TOOLS
    /\ tool_map = NoTools
    /\ system_prompt = ""
    /\ max_iterations = 0
    /\ question = "q"
    /\ messages = <<>>

\* demo_streaming_with_tools() is about to be called
InitDemo ==
    /\ variant = "demo_streaming_with_tools"
    /\ tools = streaming_TOOLS
    /\ tool_map = NoTools
    /\ system_prompt = ""
    /\ max_iterations = 0
    /\ question = demo_question
    /\ messages = <<>>

\* one call is about to be made
InitCall ==
    /\ InitBaseAgent \/ InitRunAgentLoop \/ InitRunAgent \/ InitDemo
    /\ iteration = 0
    /\ pc = "idle"
    /\ response = NoResponse
    /\ chunks = <<>>
    /\ collected_content = ""
    /\ collected_tool_calls = <<>>
    /\ tool_idx = 0
    /\ result = <<>>
    /\ yielded = <<>>
    /\ raised = ""
    /\ script = <<>>
    /\ model_calls = 0
    /\ executed = <<>>
    /\ earlier = <<>>
    /\ stdout = <<>>
    /\ llm_input = <<>>

\* verbose: bool = True
Init ==
    /\ InitCall /\ suspended = <<>> /\ verbose = TRUE
    /\ tool_run = NoToolRun /\ generation = NoGeneration

Next ==
    \/ invoke_begin
    \/ invoke_call_llm
    \/ invoke_execute_tool
    \/ invoke_max_iterations
    \/ stream_begin
    \/ stream_call_llm
    \/ stream_chunk
    \/ stream_end_of_turn
    \/ stream_execute_tool
    \/ stream_max_iterations
    \/ run_agent_loop_begin
    \/ run_agent_loop_call_llm
    \/ run_agent_loop_execute_tool
    \/ run_agent_loop_max_iterations
    \/ run_agent_begin
    \/ run_agent_call_llm
    \/ run_agent_execute_tool
    \/ run_agent_max_iterations
    \/ demo_begin
    \/ demo_call_llm
    \/ demo_chunk
    \/ demo_end_of_turn
    \/ demo_execute_tool
    \/ demo_max_iterations_reached

Spec == Init /\ [][Next]_vars

(***************************************************************************)
(* The same question asked twice of agents built alike over one stubbed    *)
(* backend: agent.invoke(question) as demo_basic_usage does, then          *)
(* agent.stream(question) as demo_streaming does.  The backend answers the *)
(* k-th call of the second run with the turn it gave the k-th call of the  *)
(* first.                                                                  *)
(***************************************************************************)
Observed ==
    [variant |-> variant, messages |-> messages, executed |-> executed,
     result |-> result, yielded |-> yielded, pc |-> pc, raised |-> raised,
     model_calls |-> model_calls, stdout |-> stdout]

Returned == pc \in {"final", "exhausted", "raised"}

stream_after_invoke ==
    /\ variant = "invoke" /\ Returned /\ earlier = <<>>
    /\ earlier' = <<Observed>>
    /\ variant' = "stream"
    /\ messages' = <<>>
    /\ iteration' = 0
    /\ pc' = "idle"
    /\ response' = NoResponse
    /\ chunks' = <<>>
    /\ collected_content' = ""
    /\ collected_tool_calls' = <<>>
    /\ tool_idx' = 0
    /\ result' = <<>>
    /\ yielded' = <<>>
    /\ raised' = ""
    /\ model_calls' = 0
    /\ executed' = <<>>
    /\ stdout' = <<>>
    /\ llm_input' = <<>>
    /\ UNCHANGED <<suspended, tool_run, generation, verbose, tools, system_prompt, question,
                   locals, script>>

InitPair == Init /\ variant = "invoke"

NextPair ==
    \/ invoke_begin
    \/ invoke_call_llm
    \/ invoke_execute_tool
    \/ invoke_max_iterations
    \/ stream_after_invoke
    \/ stream_begin
    \/ stream_call_llm
    \/ stream_chunk
    \/ stream_end_of_turn
    \/ stream_execute_tool
    \/ stream_max_iterations

SpecPair == InitPair /\ [][NextPair]_vars

(***************************************************************************)
(* One agent asked question after question, as demo_multiple_questions and *)
(* interactive_mode do: for q in questions: result = agent.invoke(q).      *)
(* What the call before left behind stays where it is until the code       *)
(* assigns it; the turns, model calls and tool runs are counted per call.  *)
(***************************************************************************)
Questions == {"q", "q2"}

\* how the call before this one ended
Ended == [pc |-> pc, raised |-> raised, question |-> question]

invoke_again ==
    /\ variant = "invoke" /\ Returned
    /\ earlier' = <<Ended>>
    /\ question' \in Questions
    /\ pc' = "idle"
    /\ result' = <<>>
    /\ raised' = ""
    /\ script' = <<>>
    /\ model_calls' = 0
    /\ executed' = <<>>
    /\ stdout' = <<>>
    /\ llm_input' = <<>>
    /\ UNCHANGED <<suspended, tool_run, generation, verbose, variant, tools, system_prompt,
                   locals, streaming,
                   messages, iteration, response, tool_idx>>

NextSeq ==
    \/ invoke_begin
    \/ invoke_call_llm
    \/ invoke_execute_tool
    \/ invoke_max_iterations
    \/ invoke_again

SpecSeq == InitPair /\ [][NextSeq]_vars

(***************************************************************************)
(* Two calls of invoke on one agent, their steps interleaved.  What invoke *)
(* keeps in local names (messages, iteration, response, the position of    *)
(* its for loops, its return value) belongs to the call; the fields of the *)
(* agent (tool_map, max_iterations, system_prompt) are read by both.  The  *)
(* backend answers each call on its own.                                   *)
(***************************************************************************)
CallState ==
    [question |-> question, messages |-> messages, iteration |-> iteration, pc |-> pc,
     response |-> response, tool_idx |-> tool_idx, result |-> result, raised |-> raised,
     script |-> script, model_calls |-> model_calls, executed |-> executed,
     llm_input |-> llm_input]

\* a conversation kept on the agent, one for the two calls
switch_sharing_messages ==
    /\ variant = "invoke" /\ suspended # <<>>
    /\ suspended' = <<CallState>>
    /\ question' = suspended[1].question
    /\ messages' = messages
    /\ iteration' = suspended[1].iteration
    /\ pc' = suspended[1].pc
    /\ response' = suspended[1].response
    /\ tool_idx' = suspended[1].tool_idx
    /\ result' = suspended[1].result
    /\ raised' = suspended[1].raised
    /\ script' = suspended[1].script
    /\ model_calls' = suspended[1].model_calls
    /\ executed' = suspended[1].executed
    /\ llm_input' = suspended[1].llm_input
    /\ UNCHANGED <<earlier, tool_run, generation, verbose, stdout, variant, tools, system_prompt, locals,
                   streaming>>

\* the other call takes the next step
switch ==
    /\ variant = "invoke" /\ suspended # <<>>
    /\ suspended' = <<CallState>>
    /\ question' = suspended[1].question
    /\ messages' = suspended[1].messages
    /\ iteration' = suspended[1].iteration
    /\ pc' = suspended[1].pc
    /\ response' = suspended[1].response
    /\ tool_idx' = suspended[1].tool_idx
    /\ result' = suspended[1].result
    /\ raised' = suspended[1].raised
    /\ script' = suspended[1].script
    /\ model_calls' = suspended[1].model_calls
    /\ executed' = suspended[1].executed
    /\ llm_input' = suspended[1].llm_input
    /\ UNCHANGED <<earlier, tool_run, generation, verbose, stdout, variant, tools, system_prompt, locals,
                   streaming>>

\* agent.invoke("q") and agent.invoke("q2") are about to be called
InitConc ==
    /\ InitCall
    /\ verbose = FALSE
    /\ tool_run = NoToolRun /\ generation = NoGeneration
    /\ variant = "invoke" /\ tools # <<>>
    /\ suspended = <<[question |-> "q2", messages |-> <<>>, iteration |-> 0, pc |-> "idle",
                      response |-> NoResponse, tool_idx |-> 0, result |-> <<>>,
                      raised |-> "", script |-> <<>>, model_calls |-> 0,
                      executed |-> <<>>, llm_input |-> <<>>]>>

NextConc ==
    \/ invoke_begin
    \/ invoke_call_llm
    \/ invoke_execute_tool
    \/ invoke_max_iterations
    \/ switch

SpecConc == InitConc /\ [][NextConc]_vars

(***************************************************************************)
(* The same call made with verbose=True and then with verbose=False, over  *)
(* one stubbed backend that gives the second run the turns of the first.   *)
(***************************************************************************)
call_again_quiet ==
    /\ variant \in {"invoke", "run_agent_loop"} /\ Returned
    /\ earlier = <<>> /\ verbose
    /\ earlier' = <<Observed>>
    /\ verbose' = FALSE
    /\ messages' = supplied_messages
    /\ pc' = "idle"
    /\ result' = <<>>
    /\ raised' = ""
    /\ model_calls' = 0
    /\ executed' = <<>>
    /\ stdout' = <<>>
    /\ llm_input' = <<>>
    /\ UNCHANGED <<suspended, tool_run, generation, variant, tools, system_prompt, question,
                   locals,
                   streaming, iteration, response, tool_idx, script>>

InitVerbose == Init /\ variant \in {"invoke", "run_agent_loop"}

NextVerbose ==
    \/ invoke_begin
    \/ invoke_call_llm
    \/ invoke_execute_tool
    \/ invoke_max_iterations
    \/ run_agent_loop_begin
    \/ run_agent_loop_call_llm
    \/ run_agent_loop_execute_tool
    \/ run_agent_loop_max_iterations
    \/ call_again_quiet

SpecVerbose == InitVerbose /\ [][NextVerbose]_vars

(***************************************************************************)
(* top_spending_categories (tools/spending.py), called on its own with a   *)
(* data frame, a customer and a top_n.                                     *)
(***************************************************************************)
\* df[(df['cust_id'] == customer_id) & (df['dr_cr_indctor'] == 'DR')]
filtered(df, customer_id) ==
    SelectSeq(df, LAMBDA r : r.cust_id = customer_id /\ r.dr_cr_indctor = "DR")

\* filtered.groupby('category_of_txn')['tran_amt_in_ac'].sum()
category_totals(rows) ==
    [cat \in {rows[k].category_of_txn : k \in DOMAIN rows} |->
        SumAmounts(SelectSeq(rows, LAMBDA r : r.category_of_txn = cat))]

\* .sort_values(ascending=False): the groups by non-increasing total; the
\* sort is not a stable one, equal totals come in either order
sort_values(totals) ==
    LET cats == DOMAIN totals
        n == Cardinality(cats)
    IN  {[k \in 1..n |-> [cat |-> order[k], amt |-> totals[order[k]]]] :
            order \in {o \in [1..n -> cats] :
                          /\ \A a, b \in 1..n : a # b => o[a] # o[b]
                          /\ \A a, b \in 1..n : a < b => totals[o[a]] >= totals[o[b]]}}

\* Series.head(n): the first n rows, and for a negative n all rows but the last -n
head(series, n) ==
    IF n >= 0
    THEN SubSeq(series, 1, IF n < Len(series) THEN n ELSE Len(series))
    ELSE SubSeq(series, 1, IF Len(series) + n > 0 THEN Len(series) + n ELSE 0)

\* f"Top {top_n} spending categories for {customer_id}:\n"
top_spending_header(customer_id, top_n) ==
    "Top " \o ToString(top_n) \o " spending categories for " \o customer_id \o ":\n"

\* f"  {i}. {cat}: ${amt:,.2f}\n"
top_spending_line(i, row) ==
    "  " \o ToString(i) \o ". " \o row.cat \o ": $" \o FormatAmount(row.amt) \o "\n"

top_spending_categories_sort ==
    /\ tool_run.pc = "called"
    /\ \E sorted \in sort_values(category_totals(filtered(tool_run.df, tool_run.customer_id))) :
         tool_run' = [tool_run EXCEPT
                          !.top_cats = head(sorted, tool_run.top_n),
                          !.result = top_spending_header(tool_run.customer_id, tool_run.top_n),
                          !.i = 0,
                          !.pc = "listing"]
    /\ UNCHANGED <<earlier, suspended, generation, llm_input, stdout, config, locals, streaming, messages, iteration,
                   pc, response, tool_idx, result, raised, script, model_calls, executed>>

top_spending_categories_line ==
    /\ tool_run.pc = "listing" /\ tool_run.i < Len(tool_run.top_cats)
    /\ tool_run' = [tool_run EXCEPT
                        !.i = tool_run.i + 1,
                        !.result = tool_run.result
                            \o top_spending_line(tool_run.i + 1,
                                                 tool_run.top_cats[tool_run.i + 1])]
    /\ UNCHANGED <<earlier, suspended, generation, llm_input, stdout, config, locals, streaming, messages, iteration,
                   pc, response, tool_idx, result, raised, script, model_calls, executed>>

top_spending_categories_return ==
    /\ tool_run.pc = "listing" /\ tool_run.i = Len(tool_run.top_cats)
    /\ tool_run' = [tool_run EXCEPT !.pc = "returned"]
    /\ UNCHANGED <<earlier, suspended, generation, llm_input, stdout, config, locals, streaming, messages, iteration,
                   pc, response, tool_idx, result, raised, script, model_calls, executed>>

Customers == {"CUST0001", "CUST0002", "CUST0003"}

\* get_transactions_df(): the data set, or its first rows
DataFrames == {SubSeq(TRANSACTIONS_DF, 1, n) : n \in 0..Len(TRANSACTIONS_DF)}

\* top_spending_categories.invoke({'customer_id': ..., 'top_n': ...}): top_n is
\* any int, the schema sets no lower limit
InitTopSpending ==
    /\ InitCall
    /\ variant = "invoke" /\ tools = <<>> /\ max_iterations = 0
    /\ suspended = <<>> /\ verbose = TRUE /\ generation = NoGeneration
    /\ tool_run \in
           {[pc |-> "called", df |-> df, customer_id |-> c, top_n |-> n,
             top_cats |-> <<>>, i |-> 0, result |-> ""] :
                df \in DataFrames, c \in Customers, n \in (0 - 1)..MaxTopN}

NextTopSpending ==
    \/ top_spending_categories_sort
    \/ top_spending_categories_line
    \/ top_spending_categories_return

SpecTopSpending == InitTopSpending /\ [][NextTopSpending]_vars

(***************************************************************************)
(* generate_customer_transactions (scripts/generate_sample_data.py): month *)
(* by month from start_date, the income and expense transactions of the    *)
(* month.  The draws of random are choices; amounts play no part in the    *)
(* dates.                                                                  *)
(***************************************************************************)
IsLeap(year) == (year % 4 = 0 /\ year % 100 # 0) \/ year % 400 = 0

DaysInMonth(year, month) ==
    IF month = 2 THEN (IF IsLeap(year) THEN 29 ELSE 28)
    ELSE IF month \in {4, 6, 9, 11} THEN 30 ELSE 31

\* datetime.replace raises ValueError for a day the month does not have
IsValidDate(date) ==
    /\ date.month \in 1..12
    /\ date.day \in 1..DaysInMonth(date.year, date.month)

RECURSIVE DaysBeforeMonth(_, _)
DaysBeforeMonth(year, month) ==
    IF month = 1 THEN 0
    ELSE DaysInMonth(year, month - 1) + DaysBeforeMonth(year, month - 1)

RECURSIVE DaysBeforeYear(_)
DaysBeforeYear(year) ==
    IF year <= 2020 THEN 0
    ELSE (IF IsLeap(year - 1) THEN 366 ELSE 365) + DaysBeforeYear(year - 1)

\* date.toordinal(), counted from 2020-01-01
toordinal(date) ==
    DaysBeforeYear(date.year) + DaysBeforeMonth(date.year, date.month) + date.day

\* (b - a).days
days_between(a, b) == toordinal(b) - toordinal(a)

\* date + timedelta(days=n), n >= 0
RECURSIVE plus_days(_, _)
plus_days(date, n) ==
    IF date.day + n <= DaysInMonth(date.year, date.month)
    THEN Date(date.year, date.month, date.day + n)
    ELSE plus_days(IF date.month = 12 THEN Date(date.year + 1, 1, 1)
                   ELSE Date(date.year, date.month + 1, 1),
                   n - (DaysInMonth(date.year, date.month) - date.day + 1))

\* date - timedelta(days=1)
minus_one_day(date) ==
    IF date.day > 1 THEN Date(date.year, date.month, date.day - 1)
    ELSE IF date.month > 1
    THEN Date(date.year, date.month - 1, DaysInMonth(date.year, date.month - 1))
    ELSE Date(date.year - 1, 12, 31)

\* txn_date.strftime("%Y-%m-%d")
strftime(date) ==
    ToString(date.year) \o "-" \o Pad(date.month, 2) \o "-" \o Pad(date.day, 2)

\* lines 397-400
month_end_of(month_start) ==
    minus_one_day(IF month_start.month = 12
                  THEN Date(month_start.year + 1, 1, month_start.day)
                  ELSE Date(month_start.year, month_start.month + 1, month_start.day))

\* lines 419-422: the date current_date.replace is asked for
next_current_date(current_date) ==
    IF current_date.month = 12
    THEN Date(current_date.year + 1, 1, current_date.day)
    ELSE Date(current_date.year, current_date.month + 1, current_date.day)

Min(a, b) == IF a < b THEN a ELSE b

\* Largest number of EMIs a profile has.
MaxEmiCount == 9

IncomeCategories == {"Salary", "Rental_Income", "Business_Income"}

\* the values of day that line 274 and line 279 draw
IncomeDays(category) ==
    IF category = "Salary" THEN (1..5) \cup (25..28)
    ELSE IF category = "Rental_Income" THEN 1..10
    ELSE {0}

\* the values line 294 draws: random.randint(0, (month_end - month_start).days);
\* the line is not reached for Salary and Rental_Income
IncomeOffsets(category, month_start, month_end) ==
    IF category = "Salary" \/ category = "Rental_Income" THEN {0}
    ELSE 0..days_between(month_start, month_end)

\* lines 291-294
income_txn_date(category, day, offset, month_start) ==
    IF category = "Salary" \/ category = "Rental_Income"
    THEN plus_days(month_start, day - 1)
    ELSE plus_days(month_start, offset)

\* lines 317-318
emi_txn_date(i, month_start) == plus_days(month_start, Min(5 + i * 3, 28) - 1)

ExpenseCategories == {"Rent", "Groceries"}

\* the values of day that lines 340-360 draw
ExpenseDays(category) == IF category = "Rent" THEN 1..5 ELSE 1..28

\* the day drawn taken for the offset as it is
expense_txn_date_unclamped(day, month_start, month_end) == plus_days(month_start, day)

\* line 366
expense_txn_date(day, month_start, month_end) ==
    plus_days(month_start, Min(day, days_between(month_start, month_end)))

Txn(indicator, txn_date, category) ==
    [dr_cr_indctor |-> indicator, txn_date |-> txn_date, tran_date |-> strftime(txn_date),
     category_of_txn |-> category]

\* what the generator leaves alone
outside_generation ==
    <<earlier, suspended, tool_run, llm_input, stdout, config, locals, streaming, messages,
      iteration, pc, response, tool_idx, result, raised, script, model_calls, executed>>

\* lines 395-400
generate_month_start ==
    /\ generation.pc = "loop" /\ generation.month_idx < generation.num_months
    /\ LET month_start == Date(generation.current_date.year, generation.current_date.month, 1)
       IN  generation' = [generation EXCEPT
                              !.month_start = month_start,
                              !.month_end = month_end_of(month_start),
                              !.months = Append(@, <<month_start.year, month_start.month>>),
                              !.pc = "income"]
    /\ UNCHANGED outside_generation

\* generate_income_transactions appends a transaction
generate_income_transaction ==
    /\ generation.pc = "income"
    /\ \E category \in IncomeCategories :
         \E day \in IncomeDays(category),
            offset \in IncomeOffsets(category, generation.month_start, generation.month_end) :
             generation' = [generation EXCEPT
                 !.txn = Txn("CR", income_txn_date(category, day, offset,
                                                    generation.month_start), category)]
    /\ UNCHANGED outside_generation

generate_income_return ==
    /\ generation.pc = "income"
    /\ generation' = [generation EXCEPT !.txn = NoTxn, !.pc = "emi"]
    /\ UNCHANGED outside_generation

\* generate_expense_transactions appends the transaction of the i-th EMI
generate_expense_emi ==
    /\ generation.pc = "emi"
    /\ \E i \in 0..(MaxEmiCount - 1) :
         generation' = [generation EXCEPT
             !.txn = Txn("DR", emi_txn_date(i, generation.month_start), "EMI")]
    /\ UNCHANGED outside_generation

generate_expense_emi_done ==
    /\ generation.pc = "emi"
    /\ generation' = [generation EXCEPT !.txn = NoTxn, !.pc = "expense"]
    /\ UNCHANGED outside_generation

\* generate_expense_transactions appends a transaction of a category
generate_expense_transaction ==
    /\ generation.pc = "expense"
    /\ \E category \in ExpenseCategories :
         \E day \in ExpenseDays(category) :
             generation' = [generation EXCEPT
                 !.txn = Txn("DR", expense_txn_date(day, generation.month_start,
                                                     generation.month_end), category)]
    /\ UNCHANGED outside_generation

generate_expense_return ==
    /\ generation.pc = "expense"
    /\ generation' = [generation EXCEPT !.txn = NoTxn, !.pc = "advance"]
    /\ UNCHANGED outside_generation

\* lines 419-422
generate_advance ==
    /\ generation.pc = "advance"
    /\ IF IsValidDate(next_current_date(generation.current_date))
       THEN generation' = [generation EXCEPT
                               !.current_date = next_current_date(@),
                               !.month_idx = @ + 1,
                               !.pc = "loop"]
       ELSE generation' = [generation EXCEPT !.pc = "raised"]
    /\ UNCHANGED outside_generation

\* line 424
generate_return ==
    /\ generation.pc = "loop" /\ generation.month_idx = generation.num_months
    /\ generation' = [generation EXCEPT !.pc = "returned"]
    /\ UNCHANGED outside_generation

\* Largest num_months the generator is called with.
MaxMonths == 2

\* the first and the last days of the months of a common year and of a leap year
StartDays == {1, 28, 29, 30, 31}

StartDates ==
    {d \in {Date(year, month, day) :
                year \in {2023, 2024}, month \in 1..12, day \in StartDays} :
        IsValidDate(d)}

\* generate_customer_transactions(cust_id, persona, start_date, num_months) is called
InitGenerate ==
    /\ InitCall
    /\ variant = "invoke" /\ tools = <<>> /\ max_iterations = 0 /\ system_prompt = ""
    /\ suspended = <<>> /\ verbose = TRUE /\ tool_run = NoToolRun
    /\ generation \in
           {[pc |-> "loop", start_date |-> d, current_date |-> d, num_months |-> n,
             month_idx |-> 0, month_start |-> NoDate, month_end |-> NoDate,
             months |-> <<>>, txn |-> NoTxn] : d \in StartDates, n \in 0..MaxMonths}

NextGenerate ==
    \/ generate_month_start
    \/ generate_income_transaction
    \/ generate_income_return
    \/ generate_expense_emi
    \/ generate_expense_emi_done
    \/ generate_expense_transaction
    \/ generate_expense_return
    \/ generate_advance
    \/ generate_return

SpecGenerate == InitGenerate /\ [][NextGenerate]_vars

(***************************************************************************)
(* Properties                                                              *)
(***************************************************************************)
Sentinel == "Max iterations reached without final answer"

Streamed == variant \in {"stream", "demo_streaming_with_tools"}

\* the tool call the dispatching loop is at
CurrentToolCall ==
    IF Streamed THEN collected_tool_calls[tool_idx] ELSE response.tool_calls[tool_idx]

WantsTools(turn) == ~turn.fault /\ turn.tool_calls # <<>>

IsFinal(turn) == ~turn.fault /\ turn.tool_calls = <<>>

C2_FinalAnswerIffNoToolCalls ==
    variant \in {"invoke", "run_agent"} =>
        /\ (pc = "final") = (model_calls >= 1 /\ IsFinal(script[model_calls]))
        /\ pc = "final" =>
               /\ result = <<Join(script[model_calls].fragments)>>
               /\ iteration = model_calls
               /\ \A k \in 1..(model_calls - 1) : WantsTools(script[k])
        /\ (pc = "final" /\ model_calls = 1) => executed = <<>>
        /\ pc \notin {"final", "exhausted"} => result = <<>>

C2_Witness ==
    /\ variant = "invoke" /\ pc = "final" /\ model_calls = 2
    /\ script[1].fragments # <<>>
    /\ result = <<"42">>

\* C3: when the iteration cap is reached without a final answer,
\* BaseAgent.invoke and run_agent return the literal sentinel and do not raise;
\* every value they return is a model turn's text or the sentinel.
C3_SentinelAtTheCap ==
    variant \in {"invoke", "run_agent"} =>
        /\ pc = "exhausted" => (result = <<Sentinel>> /\ raised = "")
        /\ (pc = "loop" /\ iteration >= max_iterations) =>
               \/ (variant = "invoke" /\ ENABLED invoke_max_iterations
                       /\ ~ENABLED invoke_call_llm)
               \/ (variant = "run_agent" /\ ENABLED run_agent_max_iterations
                       /\ ~ENABLED run_agent_call_llm)
        /\ result # <<>> =>
               \/ result = <<Sentinel>> /\ pc = "exhausted"
               \/ /\ pc = "final"
                  /\ \E k \in DOMAIN script : result = <<Join(script[k].fragments)>>
        /\ pc = "raised" => result = <<>>

C3_Witness ==
    /\ variant = "run_agent" /\ pc = "exhausted"
    /\ model_calls = react_max_iterations
    /\ result = <<Sentinel>>

\* C4: run_agent_loop, BaseAgent.stream and demo_streaming_with_tools deliver
\* the literal sentinel to their caller when the cap is reached without a
\* final answer.
C4_OtherVariantsDeliverSentinel ==
    (/\ variant \in {"run_agent_loop", "stream", "demo_streaming_with_tools"}
     /\ pc = "exhausted" /\ model_calls >= 1) =>
        \/ result = <<Sentinel>>
        \/ yielded # <<>> /\ yielded[Len(yielded)] = Sentinel

\* C5: a fault of a tool's implementation never aborts BaseAgent.invoke: only
\* faults of the model backend propagate out of it.
C5_OnlyModelFaultsPropagate ==
    variant = "invoke" => raised \in {"", "model"}

\* C6: in BaseAgent.invoke a tool call whose name is not in the registry runs
\* no tool and raises nothing: the text Error: Unknown tool '<name>' is
\* appended as the tool message of that call's id and the loop goes on with
\* the next tool call or the next model call.
C6_UnknownToolRecovered ==
    [][(variant = "invoke" /\ pc = "tools"
            /\ CurrentToolCall.name \notin DOMAIN tool_map) =>
        /\ messages' = Append(messages,
               ToolMessage("Error: Unknown tool '" \o CurrentToolCall.name \o "'",
                           CurrentToolCall.id))
        /\ executed' = executed
        /\ raised' = ""
        /\ pc' = IF tool_idx < Len(response.tool_calls) THEN "tools" ELSE "loop"
        /\ tool_idx' = tool_idx + 1]_vars

C6_Witness ==
    /\ variant = "invoke" /\ tools = <<>> /\ pc = "loop" /\ model_calls = 1
    /\ Len(messages) = 4
    /\ messages[3].content = "Error: Unknown tool 'get_total_spending'"
    /\ messages[4].content = "Error: Unknown tool 'get_weather'"
    /\ executed = <<>>

\* C7: in run_agent_loop, run_agent and demo_streaming_with_tools a tool call
\* of an unregistered name raises nothing and gets a tool message whose text
\* is Error: Unknown tool '<name>'.
C7_UnknownToolTextElsewhere ==
    [][(/\ variant \in {"run_agent_loop", "run_agent", "demo_streaming_with_tools"}
        /\ pc = "tools"
        /\ CurrentToolCall.name \notin DOMAIN tool_map) =>
        /\ raised' = ""
        /\ messages' = Append(messages,
               ToolMessage("Error: Unknown tool '" \o CurrentToolCall.name \o "'",
                           CurrentToolCall.id))]_vars

\* C8: a fault of the model call at iteration k of BaseAgent.invoke propagates
\* to the caller and is not retried: the model was called once per iteration,
\* the faulting call appends no message and returns nothing, and after it
\* there is no further step.
C8_ModelFaultIsFatal ==
    /\ [](variant = "invoke" =>
            /\ iteration = model_calls
            /\ (model_calls >= 1 /\ script[model_calls].fault) =>
                   (pc = "raised" /\ raised = "model" /\ result = <<>>)
            /\ pc = "raised" => ~ENABLED Next)
    /\ [][(variant = "invoke" /\ model_calls' = model_calls + 1
              /\ script'[model_calls'].fault) =>
            (/\ pc' = "raised" /\ raised' = "model"
             /\ messages' = messages /\ executed' = executed
             /\ result' = <<>>)]_vars

C8_Witness ==
    /\ variant = "invoke" /\ pc = "raised" /\ raised = "model"
    /\ model_calls = 2 /\ Len(messages) = 3

\* the tool messages that follow the message at j, up to the next other message
ResultsAfter(j) ==
    LET stops == {i \in (j + 1)..Len(messages) : messages[i].type # "tool"}
        stop == IF stops = {} THEN Len(messages) + 1
                ELSE CHOOSE i \in stops : \A other \in stops : i <= other
    IN  SubSeq(messages, j + 1, stop - 1)

AIIndices == {j \in DOMAIN messages : messages[j].type = "ai"}

\* the dispatching phase of the latest assistant message is over
PhaseOver ==
    \/ pc \in {"loop", "streaming", "final", "exhausted"}
    \/ pc = "raised" /\ raised = "model"

IsPrefix(s, t) == Len(s) <= Len(t) /\ SubSeq(t, 1, Len(s)) = s

\* C10: for a backend whose chunks are text fragments and whole tool calls,
\* the turn BaseAgent.stream has aggregated once the chunks are drained has
\* the text and the tool calls of the turn the blocking call returns; so
\* stream, run after invoke on the same backend, builds the conversation
\* invoke built and runs the tools invoke ran, in the same order, and stops
\* where invoke stopped.
C10_StreamAggregatesTheBlockingTurn ==
    (variant = "stream" /\ earlier # <<>>) =>
        LET blocking == earlier[1] IN
        /\ (pc = "streaming" /\ chunks = <<>>) =>
               /\ collected_content = BlockingResponse(script[model_calls]).content
               /\ collected_tool_calls = BlockingResponse(script[model_calls]).tool_calls
        /\ IsPrefix(messages, blocking.messages)
        /\ IsPrefix(executed, blocking.executed)
        /\ model_calls <= blocking.model_calls
        /\ Returned =>
               /\ messages = blocking.messages
               /\ executed = blocking.executed
               /\ model_calls = blocking.model_calls
               /\ pc = blocking.pc
               /\ raised = blocking.raised

C10_Witness ==
    /\ variant = "stream" /\ earlier # <<>> /\ pc = "final"
    /\ model_calls = 2
    /\ Len(script[1].fragments) = 2 /\ Len(script[1].tool_calls) = 2
    /\ Len(script[2].fragments) = 2
    /\ Len(yielded) = 4
    /\ messages = earlier[1].messages
    /\ Len(executed) = 1

\* C11: the tokens BaseAgent.stream yields, concatenated, are the final answer
\* BaseAgent.invoke returns for the same backend turns, also when turns that
\* ask for tools carry text.
C11_StreamYieldsTheFinalAnswerOnly ==
    (/\ variant = "stream" /\ earlier # <<>>
     /\ pc = "final" /\ earlier[1].pc = "final") =>
        <<Join(yielded)>> = earlier[1].result

AIMessages == SelectSeq(messages, LAMBDA msg : msg.type = "ai")

ToolTurnsOf(turns) == SelectSeq(turns, WantsTools)

\* C12: every call of BaseAgent.invoke, whatever the calls before it on the
\* same agent did, starts from a conversation of exactly one user message, that
\* of its own question, which is what its first model call receives; the
\* conversation then holds only that message and the assistant messages of
\* this call's own turns, and the counter starts again.
C12_InvokeStartsFresh ==
    (variant = "invoke" /\ pc # "idle") =>
        /\ messages # <<>>
        /\ messages[1] = HumanMessage(initial_prompt(system_prompt, question))
        /\ {i \in DOMAIN messages : messages[i].type = "human"} = {1}
        /\ model_calls = 0 => Len(messages) = 1
        /\ iteration = model_calls
        /\ Len(AIMessages) = Len(ToolTurnsOf(script))
        /\ \A i \in DOMAIN AIMessages :
               /\ AIMessages[i].content = Join(ToolTurnsOf(script)[i].fragments)
               /\ AIMessages[i].tool_calls = ToolTurnsOf(script)[i].tool_calls

C12_Witness ==
    /\ variant = "invoke" /\ earlier # <<>>
    /\ earlier[1].pc = "raised" /\ earlier[1].question = "q2"
    /\ question = "q"
    /\ pc = "loop" /\ model_calls = 0
    /\ messages = <<HumanMessage(initial_prompt(system_prompt, "q"))>>
    /\ response.tool_calls # <<>>

(***************************************************************************)
(* invoke run alone, from its first line to its return, as a function of   *)
(* the question and of the turns the backend gives it.                     *)
(***************************************************************************)
RECURSIVE AloneDispatch(_, _, _)
AloneDispatch(conversation, tool_calls, ran) ==
    IF tool_calls = <<>>
    THEN [messages |-> conversation, executed |-> ran, raised |-> FALSE]
    ELSE LET tool_call == Head(tool_calls)
             r == _execute_tool(tool_call)
         IN  IF r.raised
             THEN [messages |-> conversation, executed |-> ran \o Ran(tool_call),
                   raised |-> TRUE]
             ELSE AloneDispatch(Append(conversation, ToolMessage(r.value, tool_call.id)),
                                Tail(tool_calls), ran \o Ran(tool_call))

Outcome(conversation, ran, value, at, fault) ==
    [messages |-> conversation, executed |-> ran, result |-> value, pc |-> at,
     raised |-> fault]

RECURSIVE AloneLoop(_, _, _, _)
AloneLoop(conversation, turns, ran, left) ==
    IF left = 0 THEN Outcome(conversation, ran, <<Sentinel>>, "exhausted", "")
    ELSE IF turns = <<>> THEN Outcome(conversation, ran, <<>>, "loop", "")
    ELSE LET turn == Head(turns) IN
         IF turn.fault THEN Outcome(conversation, ran, <<>>, "raised", "model")
         ELSE IF turn.tool_calls = <<>>
         THEN Outcome(conversation, ran, <<Join(turn.fragments)>>, "final", "")
         ELSE LET d == AloneDispatch(
                           Append(conversation,
                                  AIMessage(Join(turn.fragments), turn.tool_calls)),
                           turn.tool_calls, ran)
              IN  IF d.raised
                  THEN Outcome(d.messages, d.executed, <<>>, "raised", "tool")
                  ELSE AloneLoop(d.messages, Tail(turns), d.executed, left - 1)

Alone(call) ==
    AloneLoop(<<HumanMessage(initial_prompt(system_prompt, call.question))>>,
              call.script, <<>>, max_iterations)

\* the call did what it does alone, as far as it has got
AsAlone(call) ==
    /\ call.messages # <<>>
    /\ {i \in DOMAIN call.messages : call.messages[i].type = "human"} = {1}
    /\ call.model_calls = Len(call.script)
    /\ IsPrefix(call.messages, Alone(call).messages)
    /\ IsPrefix(call.executed, Alone(call).executed)
    /\ call.pc # "tools" =>
           /\ call.messages = Alone(call).messages
           /\ call.executed = Alone(call).executed
           /\ call.raised = Alone(call).raised
           /\ IF call.pc = "loop" /\ call.iteration = max_iterations
              THEN Alone(call).pc = "exhausted" /\ call.result = <<>>
              ELSE call.pc = Alone(call).pc /\ call.result = Alone(call).result

\* C13: under every interleaving of the steps of two calls of invoke on one
\* agent, each call's conversation holds its own question, its own turns and
\* its own tool results only, and each call makes the model and tool calls
\* and returns the result that it makes and returns when it runs alone.
C13_ConcurrentCallsIndependent ==
    (variant = "invoke" /\ suspended # <<>>) =>
        /\ pc # "idle" => AsAlone(CallState)
        /\ suspended[1].pc # "idle" => AsAlone(suspended[1])

C13_Witness ==
    /\ variant = "invoke" /\ suspended # <<>>
    /\ pc = "tools" /\ tool_idx = 2 /\ model_calls = 2
    /\ suspended[1].pc = "tools" /\ suspended[1].tool_idx = 2
    /\ suspended[1].model_calls = 1
    /\ question # suspended[1].question

\* C14: no loop variant, run_agent_loop included, modifies a message sequence
\* that its caller supplied or can observe: the caller's sequence is at every
\* moment what the caller built.
C14_CallerMessagesUntouched == caller_messages = supplied_messages

\* C15: a tool list in which two tools have the same name yields no registry:
\* building it fails, so no loop dispatches from such a list and no tool is
\* ever run from it.
C15_DuplicateNamesRejected == HasDuplicateNames(tools) => executed = <<>>

\* C16: BaseAgent.invoke and run_agent_loop run with verbose=False, for the
\* question, tools and backend turns of a run with verbose=True, print
\* nothing and otherwise do what that run did: the same model calls, the same
\* tools in the same order, the same conversation and the same result.
C16_VerboseOnlyPrints ==
    (variant \in {"invoke", "run_agent_loop"} /\ earlier # <<>>) =>
        LET loud == earlier[1] IN
        /\ ~verbose /\ stdout = <<>>
        /\ IsPrefix(messages, loud.messages)
        /\ IsPrefix(executed, loud.executed)
        /\ model_calls <= loud.model_calls
        /\ Returned =>
               /\ messages = loud.messages
               /\ executed = loud.executed
               /\ model_calls = loud.model_calls
               /\ result = loud.result
               /\ pc = loud.pc
               /\ raised = loud.raised

C16_Witness ==
    /\ variant = "run_agent_loop" /\ earlier # <<>> /\ ~verbose
    /\ pc = "final" /\ model_calls = 2
    /\ Len(earlier[1].stdout) > 4 /\ stdout = <<>>
    /\ result = earlier[1].result
    /\ executed # <<>>

\* the tool call that the tool message at i answers
CallOf(i) ==
    LET j == CHOOSE a \in AIIndices :
                 a < i /\ \A other \in AIIndices : other < i => other <= a
    IN  messages[j].tool_calls[i - j]

\* C17: BaseAgent.invoke alters neither tool output nor model text: the tool
\* message of a call of a registered tool carries the string the tool
\* returned, for CUST0001 the total of its debit rows, $900.00; it stays in
\* the conversation as it is for the model calls that follow; the value
\* returned is the final turn's text, so a final turn that repeats the tool's
\* string returns that string with the exact figure.
C17_LoopKeepsStringsExact ==
    variant = "invoke" =>
        /\ \A i \in DOMAIN messages :
               (messages[i].type = "tool" /\ CallOf(i).name \in DOMAIN tool_map) =>
                   /\ messages[i].content =
                          ToolInvoke(tool_map[CallOf(i).name], CallOf(i).args).value
                   /\ CallOf(i).args = [customer_id |-> "CUST0001"] =>
                          messages[i].content = "Customer CUST0001 total spending: $900.00"
        /\ pc = "final" => result = <<Join(script[model_calls].fragments)>>
        /\ (/\ pc = "final" /\ messages[Len(messages)].type = "tool"
            /\ script[model_calls].fragments = <<messages[Len(messages)].content>>
            /\ CallOf(Len(messages)) =
                   [name |-> "get_total_spending", args |-> [customer_id |-> "CUST0001"],
                    id |-> CallOf(Len(messages)).id]
            /\ "get_total_spending" \in DOMAIN tool_map) =>
               result = <<"Customer CUST0001 total spending: $900.00">>

C17_Witness ==
    /\ variant = "invoke" /\ pc = "final" /\ model_calls = 2
    /\ executed = <<[name |-> "get_total_spending", args |-> [customer_id |-> "CUST0001"]]>>
    /\ messages[Len(messages)].content = "Customer CUST0001 total spending: $900.00"
    /\ result = <<"Customer CUST0001 total spending: $900.00">>

\* C18: with default configuration every loop variant gives up after exactly
\* 10 model calls; for the loops that take no cap from their caller,
\* react.run_agent and streaming.demo_streaming_with_tools, that is every run
\* that gives up.
C18_DefaultCapIsTen ==
    (variant \in {"run_agent", "demo_streaming_with_tools"} /\ pc = "exhausted") =>
        model_calls = MAX_ITERATIONS

\* C19: top_spending_categories(customer_id, top_n) lists only categories of
\* that customer's debit rows, with their totals, ordered by non-increasing
\* total, and at most top_n of them: min(top_n, number of categories), none
\* for a top_n below 1; for
\* CUST0001 with debit totals Groceries 100, Rent 500, EMI 300 and top_n = 2
\* it lists Rent 500 then EMI 300.
C19_TopSpendingCategories ==
    tool_run.pc \in {"listing", "returned"} =>
        LET rows == filtered(tool_run.df, tool_run.customer_id)
            cats == {rows[k].category_of_txn : k \in DOMAIN rows}
            listed == tool_run.top_cats
            AtMost == IF tool_run.top_n > 0 THEN tool_run.top_n ELSE 0
        IN  /\ \A k \in DOMAIN listed :
                   /\ listed[k].cat \in cats
                   /\ listed[k].amt = category_totals(rows)[listed[k].cat]
            /\ \A a, b \in DOMAIN listed : a < b =>
                   (listed[a].amt >= listed[b].amt /\ listed[a].cat # listed[b].cat)
            /\ Len(listed) <= AtMost
            /\ Len(listed) = IF AtMost < Cardinality(cats) THEN AtMost ELSE Cardinality(cats)
            /\ (/\ tool_run.df = TRANSACTIONS_DF /\ tool_run.customer_id = "CUST0001"
                /\ tool_run.top_n = 2) =>
                   /\ listed = <<[cat |-> "Rent", amt |-> 50000],
                                 [cat |-> "EMI", amt |-> 30000]>>
                   /\ tool_run.pc = "returned" =>
                          tool_run.result =
                              "Top 2 spending categories for CUST0001:\n"
                                  \o "  1. Rent: $500.00\n  2. EMI: $300.00\n"

\* C20: in every reachable state of every loop variant the conversation is
\* well formed: its first message is its only user message; every assistant
\* message in it asks for tools; every tool message follows an assistant
\* message with nothing but tool messages between, and carries the id of the
\* call of that assistant message at its position; and an assistant message
\* that is followed by another has all its results.
C20_ConversationWellFormed ==
    messages # <<>> =>
        /\ {i \in DOMAIN messages : messages[i].type = "human"} = {1}
        /\ \A j \in AIIndices : messages[j].tool_calls # <<>>
        /\ \A i \in DOMAIN messages :
               messages[i].type = "tool" =>
                   \E j \in AIIndices :
                       /\ j < i
                       /\ \A k \in (j + 1)..i : messages[k].type = "tool"
                       /\ i - j <= Len(messages[j].tool_calls)
                       /\ messages[i].tool_call_id = messages[j].tool_calls[i - j].id
                       /\ messages[i].tool_call_id \in
                              {messages[j].tool_calls[c].id : c \in DOMAIN messages[j].tool_calls}
        /\ \A j, later \in AIIndices :
               j < later => Len(ResultsAfter(j)) = Len(messages[j].tool_calls)

C20_Witness ==
    /\ variant = "demo_streaming_with_tools" /\ pc = "tools"
    /\ model_calls = 2 /\ tool_idx = 2
    /\ Len(messages) = 5
    /\ messages[4].type = "ai" /\ Len(messages[4].tool_calls) = 2
    /\ messages[5].type = "tool"

\* the tool calls of the turns, in the order the model asked for them
RECURSIVE Invocations(_)
Invocations(turns) ==
    IF turns = <<>> THEN <<>>
    ELSE (IF WantsTools(Head(turns)) THEN Head(turns).tool_calls ELSE <<>>)
             \o Invocations(Tail(turns))

\* the tool runs that executing each of the calls once, in order, makes
RECURSIVE RanAll(_)
RanAll(calls) ==
    IF calls = <<>> THEN <<>> ELSE Ran(Head(calls)) \o RanAll(Tail(calls))

ToolMessages == SelectSeq(messages, LAMBDA msg : msg.type = "tool")

\* the tool calls the dispatcher has to be through with: all of the turns
\* before, and of a turn under dispatch those before the position of the loop
Due ==
    LET all == Invocations(script)
    IN  IF pc = "tools"
        THEN SubSeq(all, 1, Len(all) - Len(response.tool_calls) + tool_idx - 1)
        ELSE all

\* C21: within a turn BaseAgent.invoke executes every tool call exactly once,
\* in the order of the turn's list and with the call's own arguments, and
\* appends its result; whenever the dispatch of a turn is over, and so before
\* the next model call, every call of the turn has been run and answered.
C21_EveryInvocationOnceInOrder ==
    variant = "invoke" =>
        /\ executed = RanAll(Due)
        /\ Len(ToolMessages) = Len(Due)
        /\ \A i \in DOMAIN ToolMessages : ToolMessages[i].tool_call_id = Due[i].id
        /\ ENABLED invoke_call_llm => Len(ToolMessages) = Len(Invocations(script))

RECURSIVE ChunkTexts(_)
ChunkTexts(cs) == IF cs = <<>> THEN "" ELSE Head(cs).content \o ChunkTexts(Tail(cs))

RECURSIVE ChunkCalls(_)
ChunkCalls(cs) == IF cs = <<>> THEN <<>> ELSE Head(cs).tool_calls \o ChunkCalls(Tail(cs))

\* C22: BaseAgent.stream and demo_streaming_with_tools take the chunks of a
\* turn strictly in order and decide only when the sequence is used up: while
\* chunks are left nothing is decided, what is collected is what the chunks
\* taken so far carried, and at the end a turn with tool calls is dispatched
\* wherever its text came, before, after or between the calls; only a turn
\* without tool calls ends the loop with a final answer.
C22_NoShortCircuit ==
    /\ [](Streamed =>
            /\ pc = "streaming" =>
                   \E layout \in Layouts :
                       LET all == Chunked(script[model_calls], layout)
                           taken == SubSeq(all, 1, Len(all) - Len(chunks))
                       IN  /\ Len(chunks) <= Len(all)
                           /\ all = taken \o chunks
                           /\ collected_content = ChunkTexts(taken)
                           /\ collected_tool_calls = ChunkCalls(taken)
            /\ pc \in {"tools", "final"} =>
                   /\ chunks = <<>>
                   /\ collected_content = Join(script[model_calls].fragments)
                   /\ collected_tool_calls = script[model_calls].tool_calls
            /\ pc = "tools" => WantsTools(script[model_calls])
            /\ pc = "final" => IsFinal(script[model_calls]))
    /\ [][(Streamed /\ pc = "streaming") =>
            /\ chunks # <<>> =>
                   /\ pc' = "streaming" /\ chunks' = Tail(chunks)
                   /\ messages' = messages /\ result' = result /\ executed' = executed
            /\ chunks = <<>> =>
                   /\ pc' = IF WantsTools(script[model_calls]) THEN "tools" ELSE "final"
                   /\ WantsTools(script[model_calls]) =>
                          messages' = Append(messages,
                              AIMessage(Join(script[model_calls].fragments),
                                        script[model_calls].tool_calls))]_vars

C22_Witness ==
    /\ variant = "stream" /\ pc = "tools" /\ model_calls = 1 /\ tool_idx = 2
    /\ yielded = <<"Let me", " check.">>
    /\ Len(collected_tool_calls) = 2
    /\ Len(executed) = 1
    /\ messages[2].content = "Let me check."

\* C23: the conversation of BaseAgent.invoke starts as exactly one user
\* message whose text is system_prompt, then "\n\nQuestion: ", then the
\* question, the string get_prompt_with_question builds, and the first model
\* call is given exactly that conversation of one message.
C23_InitialConversation ==
    /\ [](variant = "invoke" /\ pc # "idle" =>
            /\ Len(messages) >= 1
            /\ messages[1] = HumanMessage(system_prompt \o "\n\nQuestion: " \o question)
            /\ messages[1].content = get_prompt_with_question(system_prompt, question)
            /\ model_calls = 0 => Len(messages) = 1)
    /\ [][(variant = "invoke" /\ model_calls = 0 /\ model_calls' = 1) =>
            llm_input' = <<<<HumanMessage(system_prompt \o "\n\nQuestion: " \o question)>>>>]_vars

C23_Witness ==
    /\ variant = "invoke" /\ pc = "tools" /\ model_calls = 1
    /\ system_prompt = FINANCIAL_ANALYST_PROMPT
    /\ llm_input = <<<<HumanMessage(FINANCIAL_ANALYST_PROMPT \o "\n\nQuestion: q")>>>>
    /\ Len(messages) = 2

\* C24: the conversation of BaseAgent.invoke and of run_agent_loop is
\* append-only: every step leaves the messages that are in it as they are
\* and where they are, and each model call after the first is given a
\* conversation that has the one given to the call before as a strict prefix.
C24_ConversationAppendOnly ==
    /\ [][(variant \in {"invoke", "run_agent_loop"}) => IsPrefix(messages, messages')]_vars
    /\ [][(/\ variant \in {"invoke", "run_agent_loop"}
           /\ model_calls' = model_calls + 1 /\ model_calls >= 1) =>
            /\ llm_input # <<>> /\ llm_input' = <<messages>>
            /\ IsPrefix(llm_input[1], llm_input'[1])
            /\ Len(llm_input[1]) < Len(llm_input'[1])]_vars

C24_Witness ==
    /\ variant = "run_agent_loop" /\ model_calls = 2 /\ pc = "tools"
    /\ Len(llm_input[1]) = 4
    /\ llm_input[1][1] = HumanMessage("q")
    /\ Len(messages) = 5

\* C25: the registry and the configuration of an agent do not change after
\* construction: no step of invoke, of stream or of _execute_tool, and no
\* passing from one call to the next, changes tool_map, tools, system_prompt or
\* max_iterations, whatever the model asks for and whatever the tools return;
\* so the registry is at every moment the one built from the tool list, and
\* the tools offered to the model are the same, in the same order, for every
\* call.
C25_ConfigurationImmutable ==
    /\ [](tool_map = ToolMap(tools))
    /\ [][/\ tool_map' = tool_map
          /\ tools' = tools
          /\ system_prompt' = system_prompt
          /\ max_iterations' = max_iterations]_vars

C25_Witness ==
    /\ variant = "stream" /\ earlier # <<>> /\ pc = "raised" /\ raised = "tool"
    /\ earlier[1].raised = "tool"
    /\ model_calls = 2
    /\ tools = <<Tool("get_total_spending")>>
    /\ tool_map = ToolMap(tools)

\* C26: a turn that asks for tools on the last permitted iteration is
\* dispatched in full: when BaseAgent.invoke or run_agent, with a cap of at
\* least 1, returns the sentinel, each of the max_iterations turns asked for
\* tools, every tool call of every one of them has been run and answered, and
\* the conversation is the one the last model call was given, then the
\* assistant message of the last turn, then one tool message per call of that
\* turn; no model call follows, so no model call is given these.
C26_LastTurnDispatched ==
    (variant \in {"invoke", "run_agent"} /\ pc = "exhausted" /\ max_iterations >= 1) =>
        /\ model_calls = max_iterations
        /\ Len(script) = max_iterations
        /\ \A k \in DOMAIN script : WantsTools(script[k])
        /\ executed = RanAll(Invocations(script))
        /\ Len(ToolMessages) = Len(Invocations(script))
        /\ llm_input # <<>>
        /\ LET last == script[max_iterations]
               seen == llm_input[1]
               unseen == SubSeq(messages, Len(seen) + 1, Len(messages))
           IN  /\ IsPrefix(seen, messages)
               /\ Len(unseen) = 1 + Len(last.tool_calls)
               /\ unseen[1] = AIMessage(Join(last.fragments), last.tool_calls)
               /\ \A i \in DOMAIN last.tool_calls :
                      /\ unseen[i + 1].type = "tool"
                      /\ unseen[i + 1].tool_call_id = last.tool_calls[i].id
               /\ messages[Len(messages)].type = "tool"
        /\ ~ENABLED Next

C26_Witness ==
    /\ variant = "invoke" /\ pc = "exhausted" /\ max_iterations = 2
    /\ Len(script[2].tool_calls) = 2
    /\ Len(messages) = Len(llm_input[1]) + 3
    /\ messages[Len(messages)].type = "tool"
    /\ Len(executed) >= 2

\* C27: with max_iterations <= 0, BaseAgent.invoke, run_agent_loop and
\* BaseAgent.stream call the model not once and run no tool; the only step
\* left to them after the entry is to give up, at which invoke and
\* run_agent_loop return the sentinel, and stream ends without having yielded
\* anything.
C27_NoIterationsPermitted ==
    (/\ variant \in {"invoke", "run_agent_loop", "stream"}
     /\ max_iterations <= 0 /\ pc # "idle") =>
        /\ model_calls = 0 /\ script = <<>> /\ llm_input = <<>>
        /\ executed = <<>>
        /\ yielded = <<>>
        /\ raised = ""
        /\ pc \in {"loop", "exhausted"}
        /\ pc = "loop" =>
               /\ ~ENABLED invoke_call_llm
               /\ ~ENABLED run_agent_loop_call_llm
               /\ ~ENABLED stream_call_llm
               /\ ENABLED Next
        /\ (pc = "exhausted" /\ variant # "stream") => result = <<Sentinel>>
        /\ variant = "stream" => result = <<>>

\* the messages the turns put into the conversation: for each turn its
\* assistant message and one tool message per tool call
RECURSIVE MessagesOf(_)
MessagesOf(turns) ==
    IF turns = <<>> THEN 0
    ELSE 1 + Len(Head(turns).tool_calls) + MessagesOf(Tail(turns))

\* C28: the k-th model call of BaseAgent.invoke is given a conversation of
\* exactly 1 + the sum, over the k-1 turns before, of 1 + the number of tool
\* calls of the turn; the turn that is the final answer is never appended:
\* when invoke returns a final answer the conversation is the one the last
\* model call was given, and its last message is the user message or a tool
\* message.
C28_ConversationLength ==
    /\ [][(variant = "invoke" /\ model_calls' = model_calls + 1) =>
            /\ llm_input' = <<messages>>
            /\ Len(messages) = 1 + MessagesOf(SubSeq(script', 1, model_calls))
            /\ \A k \in 1..model_calls : WantsTools(script'[k])]_vars
    /\ [](variant = "invoke" /\ pc = "final" =>
            /\ messages = llm_input[1]
            /\ Len(messages) = 1 + MessagesOf(SubSeq(script, 1, model_calls - 1))
            /\ messages[Len(messages)].type \in {"human", "tool"}
            /\ (model_calls = 1) = (messages[Len(messages)].type = "human")
            /\ \A i \in DOMAIN messages :
                   messages[i].type = "ai" => messages[i].tool_calls # <<>>)

C28_Witness ==
    /\ variant = "invoke" /\ pc = "final" /\ model_calls = 2
    /\ Len(script[1].tool_calls) = 2
    /\ Len(messages) = 4
    /\ messages[4].type = "tool"
    /\ result = <<"42">>

\* the n calendar months that begin with the given one
RECURSIVE ConsecutiveMonths(_, _, _)
ConsecutiveMonths(year, month, n) ==
    IF n = 0 THEN <<>>
    ELSE <<<<year, month>>>>
             \o (IF month = 12 THEN ConsecutiveMonths(year + 1, 1, n - 1)
                 ELSE ConsecutiveMonths(year, month + 1, n - 1))

\* C29: generate_customer_transactions ends without an error for every
\* start_date, whatever its day, month and year, and every num_months >= 0;
\* the months it has generated are at every moment the consecutive calendar
\* months that begin with the month of start_date, the year going up after
\* December, and at the return there are num_months of them.
C29_GeneratesConsecutiveMonths ==
    generation.pc # "none" =>
        /\ generation.pc # "raised"
        /\ generation.months =
               ConsecutiveMonths(generation.start_date.year, generation.start_date.month,
                                 Len(generation.months))
        /\ generation.pc = "returned" => Len(generation.months) = generation.num_months

\* C30: every transaction that generate_income_transactions and
\* generate_expense_transactions produce for a month is dated in that month,
\* from its first day to its last, whatever the length of the month, the index
\* of the EMI and the day drawn; tran_date is that date as YYYY-MM-DD; the
\* rows of income carry CR and the rows of expense DR.
C30_TransactionsWithinMonth ==
    generation.txn # NoTxn =>
        LET txn == generation.txn
            month_start == generation.month_start
            month_end == generation.month_end
        IN  /\ month_start.day = 1
            /\ month_end = Date(month_start.year, month_start.month,
                                DaysInMonth(month_start.year, month_start.month))
            /\ toordinal(month_start) <= toordinal(txn.txn_date)
            /\ toordinal(txn.txn_date) <= toordinal(month_end)
            /\ txn.txn_date.year = month_start.year
            /\ txn.txn_date.month = month_start.month
            /\ txn.txn_date.day \in 1..DaysInMonth(month_start.year, month_start.month)
            /\ txn.tran_date = strftime(txn.txn_date)
            /\ generation.pc = "income" => txn.dr_cr_indctor = "CR"
            /\ generation.pc \in {"emi", "expense"} => txn.dr_cr_indctor = "DR"
            /\ txn.dr_cr_indctor \in {"CR", "DR"}

C30_Witness ==
    /\ generation.pc = "expense"
    /\ generation.month_start = Date(2023, 2, 1)
    /\ generation.month_end = Date(2023, 2, 28)
    /\ generation.txn.category_of_txn = "Groceries"
    /\ generation.txn.tran_date = "2023-02-28"
    /\ generation.txn.dr_cr_indctor = "DR"

====
